---- MODULE Spec2Model ----
(***************************************************************************)
(* Model of the KCET rank predictor of src/src/lib/college-service.ts      *)
(* (predictKCETRank and the classifiers it calls).                         *)
(*                                                                         *)
(* Numbers.  The predictor works on JavaScript numbers.  A number is       *)
(* modelled as a record [nan, n]: NaN, or the integer n.  The combined     *)
(* score 0.6 * (cet / 180 * 100) + 0.4 * puc equals                        *)
(* (100 * cet + 120 * puc) / 300, so a combined score is kept exactly as   *)
(* an integer count q of 300ths; a calibration score given in hundredths   *)
(* is 3 * hundredths in the same unit.  The interpolated rank is the       *)
(* rational (rank * scoreDiff + scoreOffset * rankDiff) / scoreDiff and    *)
(* Math.round is floor(x + 1/2).  On every integer input of the ranges     *)
(* drawn below the IEEE-754 double computation of the source and this      *)
(* exact computation give the same branch and the same low, medium and     *)
(* high (compared exhaustively outside the model).                         *)
(***************************************************************************)
EXTENDS Integers, Sequences, FiniteSets, TLC

VARIABLES cet, puc, outcome, prev, tables, helper,
          localStorage, supabase, clock, reviewCall, returned

\* The state of the rank predictor and its helpers.
predictorVars == <<cet, puc, outcome, prev, tables, helper>>
\* The state of the review service.
reviewVars == <<localStorage, supabase, clock, reviewCall, returned>>

vars == <<cet, puc, outcome, prev, tables, helper,
          localStorage, supabase, clock, reviewCall, returned>>

(***************************************************************************)
(* Bounds of the model and documented input ranges.                        *)
(***************************************************************************)
\* Inputs are drawn this far outside the documented ranges, on both sides.
Margin == 12
\* In the two-call specification the PUC score is a multiple of PucStep.
PucStep == 25
\* In sequences of calls the marks lie RepeatStep apart.
RepeatStep == 20
\* A visitor saves at most MaxSaves reviews.
MaxSaves == 2
\* The helpers are called with every rank up to MaxRank, the highest rank
\* a prediction carries.
MaxRank == 270000
\* getCollegeSuggestions is called with every rank up to MaxCollegeRank, past
\* the last threshold of every table.
MaxCollegeRank == 81000
\* 'KCET: 0-180' of the error message; also the divisor of line 569.
MaxKCET == 180
\* 'PUC: 0-100' of the error message.
MaxPUC == 100

(***************************************************************************)
(* JavaScript numbers.                                                     *)
(***************************************************************************)
NaN == [nan |-> TRUE, n |-> 0]
Num(i) == [nan |-> FALSE, n |-> i]

\* floor(a / b + 1/2) for b > 0: Math.round of the rational a / b.
RoundDiv(a, b) == (2 * a + b) \div (2 * b)

\* Mutant of RoundMul095: the product is truncated, not rounded.
RoundMul095Truncated(x) == (19 * x) \div 20

\* Math.round(x * 0.95) and Math.round(x * 1.05) for an integer x.
RoundMul095(x) == RoundDiv(19 * x, 20)
RoundMul105(x) == RoundDiv(21 * x, 20)

(***************************************************************************)
(* kcet2025RankTable: score in hundredths of a percent, descending.        *)
(***************************************************************************)
\* Mutant of kcet2025RankTable: the entries of 85.00 and 80.00 are exchanged.
kcet2025RankTableUnsorted ==
  << [score |-> 9622, rank |-> 81],
     [score |-> 9406, rank |-> 308],
     [score |-> 9000, rank |-> 1245],
     [score |-> 8000, rank |-> 8500],
     [score |-> 8500, rank |-> 3804],
     [score |-> 7500, rank |-> 16000],
     [score |-> 7000, rank |-> 30000],
     [score |-> 6500, rank |-> 50000],
     [score |-> 6000, rank |-> 80000],
     [score |-> 5000, rank |-> 155000],
     [score |-> 4000, rank |-> 235000],
     [score |-> 3500, rank |-> 259000] >>

kcet2025RankTable ==
  << [score |-> 9622, rank |-> 81],
     [score |-> 9406, rank |-> 308],
     [score |-> 9000, rank |-> 1245],
     [score |-> 8500, rank |-> 3804],
     [score |-> 8000, rank |-> 8500],
     [score |-> 7500, rank |-> 16000],
     [score |-> 7000, rank |-> 30000],
     [score |-> 6500, rank |-> 50000],
     [score |-> 6000, rank |-> 80000],
     [score |-> 5000, rank |-> 155000],
     [score |-> 4000, rank |-> 235000],
     [score |-> 3500, rank |-> 259000] >>

(***************************************************************************)
(* rankGapAnalysis.  A range string is held as the sequence of its        *)
(* characters, which split, replace and parseFloat work on.                *)
(***************************************************************************)
rankGapAnalysis ==
  << [range |-> <<"9", "5", "-", "1", "0", "0", "%">>, rankRange |-> "1-200",
      candidatesPer1Percent |-> "20-30"],
     [range |-> <<"9", "0", "-", "9", "5", "%">>, rankRange |-> "200-1,200",
      candidatesPer1Percent |-> "200-300"],
     [range |-> <<"8", "5", "-", "9", "0", "%">>, rankRange |-> "1,200-3,000",
      candidatesPer1Percent |-> "350-400"],
     [range |-> <<"8", "0", "-", "8", "5", "%">>, rankRange |-> "3,000-8,000",
      candidatesPer1Percent |-> "1,000"],
     [range |-> <<"7", "5", "-", "8", "0", "%">>, rankRange |-> "8,000-16,000",
      candidatesPer1Percent |-> "1,500"],
     [range |-> <<"7", "0", "-", "7", "5", "%">>, rankRange |-> "16,000-30,000",
      candidatesPer1Percent |-> "2,800"],
     [range |-> <<"6", "0", "-", "7", "0", "%">>, rankRange |-> "30,000-75,000",
      candidatesPer1Percent |-> "4,000-5,000"],
     [range |-> <<"5", "0", "-", "6", "0", "%">>, rankRange |-> "75,000-1,55,000",
      candidatesPer1Percent |-> "8,000-9,000"],
     [range |-> <<"4", "0", "-", "5", "0", "%">>, rankRange |-> "1,55,000-2,35,000",
      candidatesPer1Percent |-> "8,000"],
     [range |-> <<"3", "0", "-", "4", "0", "%">>, rankRange |-> "2,35,000-2,59,000",
      candidatesPer1Percent |-> "10,000"] >>

\* A score given in hundredths, in 300ths.
Q(hundredths) == 3 * hundredths
\* A whole percentage, in 300ths.
Pct(p) == 300 * p

(***************************************************************************)
(* getRankBand, getCompetitionLevel.                                       *)
(***************************************************************************)
\* Mutant of getRankBand: a threshold rank falls into the next band.
getRankBandStrict(rank) ==
  IF rank < 200 THEN "Elite"
  ELSE IF rank < 1200 THEN "Excellent"
  ELSE IF rank < 3000 THEN "Very Good"
  ELSE IF rank < 8000 THEN "Good"
  ELSE IF rank < 16000 THEN "Above Average"
  ELSE IF rank < 30000 THEN "Average"
  ELSE IF rank < 50000 THEN "Below Average"
  ELSE IF rank < 80000 THEN "Lower"
  ELSE IF rank < 155000 THEN "Poor"
  ELSE "Very Poor"

getRankBand(rank) ==
  IF rank <= 200 THEN "Elite"
  ELSE IF rank <= 1200 THEN "Excellent"
  ELSE IF rank <= 3000 THEN "Very Good"
  ELSE IF rank <= 8000 THEN "Good"
  ELSE IF rank <= 16000 THEN "Above Average"
  ELSE IF rank <= 30000 THEN "Average"
  ELSE IF rank <= 50000 THEN "Below Average"
  ELSE IF rank <= 80000 THEN "Lower"
  ELSE IF rank <= 155000 THEN "Poor"
  ELSE "Very Poor"

\* score is a combined score in 300ths.
getCompetitionLevel(score) ==
  IF score >= Pct(95) THEN "Extremely High"
  ELSE IF score >= Pct(90) THEN "Very High"
  ELSE IF score >= Pct(85) THEN "High"
  ELSE IF score >= Pct(80) THEN "Moderately High"
  ELSE IF score >= Pct(75) THEN "Moderate"
  ELSE IF score >= Pct(70) THEN "Moderately Low"
  ELSE IF score >= Pct(60) THEN "Low"
  ELSE "Very Low"

(***************************************************************************)
(* calculatePercentile.  ((260000 - rank) / 260000 * 100).toFixed(2) is    *)
(* computed in IEEE-754 doubles: the quotient is rounded to 53 bits, the   *)
(* product with 100 is rounded to 53 bits, and toFixed(2) takes the        *)
(* hundredth nearest to the exact value of that double (the larger one on  *)
(* a tie).  The exact percentile is a / 2600 with a = 260000 - rank, whose *)
(* distance to a rounding boundary (an odd multiple of 1/200) is 0 or at   *)
(* least 1/2600, far more than the error of the doubles; so the doubles    *)
(* decide the digits only when a % 26 = 13, and there they are computed    *)
(* bit for bit on naturals held as sequences of 12-bit limbs, least        *)
(* significant first.  Valid for 0 < |a| < 2^19.                           *)
(***************************************************************************)
Abs(x) == IF x < 0 THEN -x ELSE x

Base == 2 ^ 12

RECURSIVE Pow2(_)
Pow2(k) == IF k = 0 THEN 1 ELSE 2 * Pow2(k - 1)

RECURSIVE Limbs(_)
Limbs(x) == IF x < Base THEN <<x>> ELSE <<x % Base>> \o Limbs(x \div Base)

RECURSIVE Zeros(_)
Zeros(k) == IF k = 0 THEN <<>> ELSE <<0>> \o Zeros(k - 1)

\* x * 2^sh for a natural x < 2^19.
BigShl(x, sh) == Zeros(sh \div 12) \o Limbs(x * Pow2(sh % 12))

RECURSIVE BigTrim(_)
BigTrim(N) ==
  IF Len(N) > 1 /\ N[Len(N)] = 0 THEN BigTrim(SubSeq(N, 1, Len(N) - 1)) ELSE N

\* Quotient and remainder of N by a natural d < 2^18, from limb i downwards.
RECURSIVE BigDivStep(_, _, _, _, _)
BigDivStep(N, d, i, r, acc) ==
  IF i = 0 THEN [q |-> BigTrim(acc), r |-> r]
  ELSE LET cur == r * Base + N[i]
       IN BigDivStep(N, d, i - 1, cur % d, <<cur \div d>> \o acc)

BigDivSmall(N, d) == BigDivStep(N, d, Len(N), 0, <<>>)

\* N + c for a natural c, from limb i upwards.
RECURSIVE BigAddSmallStep(_, _, _)
BigAddSmallStep(N, c, i) ==
  IF c = 0 THEN N
  ELSE IF i > Len(N) THEN N \o Limbs(c)
  ELSE LET cur == N[i] + c
       IN BigAddSmallStep([N EXCEPT ![i] = cur % Base], cur \div Base, i + 1)

\* N * c for a natural c < 2^18, from limb i upwards.
RECURSIVE BigMulStep(_, _, _, _, _)
BigMulStep(N, c, i, carry, acc) ==
  IF i > Len(N) THEN BigTrim(acc \o Limbs(carry))
  ELSE LET cur == N[i] * c + carry
       IN BigMulStep(N, c, i + 1, cur \div Base, acc \o <<cur % Base>>)

BigMulSmall(N, c) == BigMulStep(N, c, 1, 0, <<>>)

\* N + 2^t.
BigAddPow2(N, t) ==
  LET k == t \div 12
      padded == IF Len(N) > k THEN N ELSE N \o Zeros(k + 1 - Len(N))
  IN BigAddSmallStep(padded, Pow2(t % 12), k + 1)

\* floor(N / 2^k).
BigShr(N, k) ==
  LET drop == k \div 12
  IN IF drop >= Len(N) THEN <<0>>
     ELSE BigDivSmall(SubSeq(N, drop + 1, Len(N)), Pow2(k % 12)).q

RECURSIVE BitLenSmall(_)
BitLenSmall(x) == IF x = 0 THEN 0 ELSE 1 + BitLenSmall(x \div 2)

\* The number of bits of a trimmed N > 0.
BigBitLen(N) == 12 * (Len(N) - 1) + BitLenSmall(N[Len(N)])

RECURSIVE BigToInt(_)
BigToInt(N) == IF Len(N) = 0 THEN 0 ELSE N[1] + Base * BigToInt(Tail(N))

\* N / d rounded to the nearest natural, ties to even: the rounding of a
\* double's significand.
BigRoundHalfEven(N, d) ==
  LET qr == BigDivSmall(N, d)
      up == 2 * qr.r > d \/ (2 * qr.r = d /\ qr.q[1] % 2 = 1)
  IN IF up THEN BigAddSmallStep(qr.q, 1, 1) ELSE qr.q

\* The shift sh with 2^52 <= a * 2^sh / d < 2^53, for 0 < a < 2 * d.
RECURSIVE QuotientShift(_, _, _)
QuotientShift(a, d, sh) ==
  IF a >= d THEN sh ELSE QuotientShift(2 * a, d, sh + 1)

\* toFixed(2) of the double fl(fl(a / d) * 100), in hundredths, for 0 < a < 2*d.
DoubleHundredths(a, d) ==
  LET sh == QuotientShift(a, d, 52)
      M == BigRoundHalfEven(BigShl(a, sh), d)
      P == BigMulSmall(M, 100)
      s == BigBitLen(P) - 53
      M2 == BigRoundHalfEven(P, Pow2(s))
      t == sh - s
  IN BigToInt(BigShr(BigAddPow2(BigMulSmall(M2, 200), t), t + 1))

Digit(d) == <<"0", "1", "2", "3", "4", "5", "6", "7", "8", "9">>[d + 1]

RECURSIVE NatToString(_)
NatToString(x) ==
  IF x < 10 THEN Digit(x) ELSE NatToString(x \div 10) \o Digit(x % 10)

\* The decimal string of h hundredths with two decimals, as toFixed(2) prints.
Fixed2(negative, h) ==
  (IF negative THEN "-" ELSE "") \o NatToString(h \div 100) \o "."
    \o Digit((h % 100) \div 10) \o Digit(h % 10)

totalCandidates == 260000

\* Mutant of calculatePercentile: the third decimal is cut, not rounded.
calculatePercentileTruncated(rank) ==
  LET a == Abs(totalCandidates - rank)
  IN Fixed2(rank > totalCandidates, a \div 26) \o "%"

calculatePercentile(rank) ==
  LET a == Abs(totalCandidates - rank)
      h == IF a % 26 = 13 THEN DoubleHundredths(a, totalCandidates)
           ELSE RoundDiv(a, 26)
  IN Fixed2(rank > totalCandidates, h) \o "%"

(***************************************************************************)
(* getCollegeSuggestions.  colleges is an object literal built anew by     *)
(* every call; colleges[category] is a JavaScript property read, which     *)
(* finds an own property, else a property inherited from Object.prototype, *)
(* else undefined.                                                         *)
(***************************************************************************)
colleges ==
  [general |->
     << [rank |-> 200, name |-> "RVCE, BMSCE, IISc", branch |-> "CSE, ECE, EEE"],
        [rank |-> 1200, name |-> "MSRIT, PESIT, BMSIT", branch |-> "CSE, ECE, ISE"],
        [rank |-> 3000, name |-> "SIT, NMIT, DSCE", branch |-> "CSE, ECE, ME"],
        [rank |-> 8000, name |-> "CIT, SJCE, UVCE", branch |-> "All branches"],
        [rank |-> 16000, name |-> "Regional colleges", branch |-> "All branches"],
        [rank |-> 30000, name |-> "Private colleges", branch |-> "All branches"] >>,
   obc |->
     << [rank |-> 300, name |-> "RVCE, BMSCE", branch |-> "CSE, ECE"],
        [rank |-> 1500, name |-> "MSRIT, PESIT", branch |-> "CSE, ECE"],
        [rank |-> 4000, name |-> "SIT, NMIT", branch |-> "CSE, ECE"],
        [rank |-> 10000, name |-> "CIT, SJCE", branch |-> "All branches"],
        [rank |-> 20000, name |-> "Regional colleges", branch |-> "All branches"],
        [rank |-> 40000, name |-> "Private colleges", branch |-> "All branches"] >>,
   sc |->
     << [rank |-> 500, name |-> "RVCE, BMSCE", branch |-> "CSE, ECE"],
        [rank |-> 2000, name |-> "MSRIT, PESIT", branch |-> "CSE, ECE"],
        [rank |-> 6000, name |-> "SIT, NMIT", branch |-> "CSE, ECE"],
        [rank |-> 15000, name |-> "CIT, SJCE", branch |-> "All branches"],
        [rank |-> 30000, name |-> "Regional colleges", branch |-> "All branches"],
        [rank |-> 60000, name |-> "Private colleges", branch |-> "All branches"] >>,
   st |->
     << [rank |-> 800, name |-> "RVCE, BMSCE", branch |-> "CSE, ECE"],
        [rank |-> 3000, name |-> "MSRIT, PESIT", branch |-> "CSE, ECE"],
        [rank |-> 8000, name |-> "SIT, NMIT", branch |-> "CSE, ECE"],
        [rank |-> 20000, name |-> "CIT, SJCE", branch |-> "All branches"],
        [rank |-> 40000, name |-> "Regional colleges", branch |-> "All branches"],
        [rank |-> 80000, name |-> "Private colleges", branch |-> "All branches"] >>]

\* The property names every object literal inherits from Object.prototype.
ObjectPrototype ==
  {"constructor", "hasOwnProperty", "isPrototypeOf", "propertyIsEnumerable",
   "toLocaleString", "toString", "valueOf", "__proto__", "__defineGetter__",
   "__defineSetter__", "__lookupGetter__", "__lookupSetter__"}

undefined == [kind |-> "undefined"]

\* object[key] on an object literal with the own properties of object: an
\* inherited member is a function or the prototype object, never an array.
Property(object, key) ==
  IF key \in DOMAIN object THEN [kind |-> "array", entries |-> object[key]]
  ELSE IF key \in ObjectPrototype THEN [kind |-> "inherited", key |-> key]
  ELSE undefined

\* Array.prototype.find from index i: the first entry with rank <= s.rank.
RECURSIVE find(_, _, _)
find(entries, rank, i) ==
  IF i > Len(entries) THEN undefined
  ELSE IF rank <= entries[i].rank THEN entries[i]
  ELSE find(entries, rank, i + 1)

NotAFunction ==
  [kind |-> "throw", message |-> "suggestions.find is not a function"]

\* Lines 770-771.  a || b is b exactly when a is undefined here: arrays,
\* functions and objects are all truthy.
getCollegeSuggestions(rank, category) ==
  LET selected == Property(colleges, category)
      suggestions == IF selected = undefined
                     THEN Property(colleges, "general") ELSE selected
  IN IF suggestions.kind # "array" THEN NotAFunction
     ELSE LET found == find(suggestions.entries, rank, 1)
          IN [kind |-> "return",
              value |-> IF found = undefined
                        THEN [name |-> "Other colleges", branch |-> "All branches"]
                        ELSE found]

(***************************************************************************)
(* The module-level tables are JavaScript arrays: const bindings of        *)
(* mutable objects, shared by every call.  tables holds their current      *)
(* contents; the functions read them from there.                           *)
(***************************************************************************)
RankTable == tables.kcet2025RankTable

GapTable == tables.rankGapAnalysis

(***************************************************************************)
(* getRankGapAnalysis.                                                     *)
(***************************************************************************)
\* String.prototype.split(sep) on a character sequence, from index i, with
\* the piece being read and the pieces already cut.
RECURSIVE splitFrom(_, _, _, _, _)
splitFrom(chars, sep, i, piece, pieces) ==
  IF i > Len(chars) THEN Append(pieces, piece)
  ELSE IF chars[i] = sep
       THEN splitFrom(chars, sep, i + 1, <<>>, Append(pieces, piece))
       ELSE splitFrom(chars, sep, i + 1, Append(piece, chars[i]), pieces)

split(chars, sep) == splitFrom(chars, sep, 1, <<>>, <<>>)

\* String.prototype.replace(c, ''): the first occurrence of c is removed.
RECURSIVE replace(_, _)
replace(chars, c) ==
  IF chars = <<>> THEN <<>>
  ELSE IF Head(chars) = c THEN Tail(chars)
  ELSE <<Head(chars)>> \o replace(Tail(chars), c)

IsDigit(c) == \E d \in 0..9 : Digit(d) = c
DigitValue(c) == CHOOSE d \in 0..9 : Digit(d) = c

\* The value of the leading decimal digits of chars from index i, given the
\* value read so far; the first other character ends the number.
RECURSIVE digitsFrom(_, _, _)
digitsFrom(chars, i, value) ==
  IF i > Len(chars) \/ ~IsDigit(chars[i]) THEN value
  ELSE digitsFrom(chars, i + 1, 10 * value + DigitValue(chars[i]))

\* parseFloat on a string of digits followed by anything: NaN when it does
\* not start with a digit.  (The range strings hold whole numbers.)
parseFloat(chars) ==
  IF chars = <<>> \/ ~IsDigit(chars[1]) THEN NaN
  ELSE Num(digitsFrom(chars, 1, 0))

\* Line 689: [min, max] of a band; a missing piece is undefined, whose
\* comparison with a number is false, as NaN's is.
bounds(band) ==
  LET pieces == split(band.range, "-")
      parsed == [k \in 1..Len(pieces) |-> parseFloat(replace(pieces[k], "%"))]
  IN [min |-> IF Len(parsed) >= 1 THEN parsed[1] ELSE NaN,
      max |-> IF Len(parsed) >= 2 THEN parsed[2] ELSE NaN]

\* Mutant of inRange: the lower end of a range is excluded.
inRangeAboveMin(band, score) ==
  LET b == bounds(band)
  IN /\ ~b.min.nan /\ score > Pct(b.min.n)
     /\ ~b.max.nan /\ score <= Pct(b.max.n)

\* Line 690, for a score in 300ths.
inRange(band, score) ==
  LET b == bounds(band)
  IN /\ ~b.min.nan /\ score >= Pct(b.min.n)
     /\ ~b.max.nan /\ score <= Pct(b.max.n)

\* rankGapAnalysis.find from index i.
RECURSIVE findBand(_, _)
findBand(score, i) ==
  IF i > Len(GapTable) THEN undefined
  ELSE IF inRange(GapTable[i], score) THEN GapTable[i]
  ELSE findBand(score, i + 1)

\* Lines 687-699, for a score in 300ths.
getRankGapAnalysis(score) ==
  LET found == findBand(score, 1)
      band == IF found = undefined THEN GapTable[Len(GapTable)] ELSE found
  IN [rankGap |-> band.rankRange,
      candidatesPerPercent |-> band.candidatesPer1Percent,
      competitionLevel |-> getCompetitionLevel(score),
      improvementPotential |-> IF score >= Pct(80) THEN "Limited"
                               ELSE IF score >= Pct(60) THEN "Moderate"
                               ELSE "High"]

(***************************************************************************)
(* predictKCETRank.                                                        *)
(***************************************************************************)
\* Mutant of combinedScore: the weights 0.6 and 0.4 are exchanged.
combinedScoreWeightsExchanged(c, p) ==
  IF c.nan \/ p.nan THEN NaN ELSE Num((200 * c.n) \div 3 + 180 * p.n)

\* combinedScore of lines 569-571, in 300ths; NaN when an input is NaN.
combinedScore(c, p) ==
  IF c.nan \/ p.nan THEN NaN ELSE Num(100 * c.n + 120 * p.n)

\* Mutant of isInvalid: the isNaN test is missing, and NaN compares false.
isInvalidWithoutNaN(s) == ~s.nan /\ (s.n < 0 \/ s.n > Pct(100))

\* The guard of line 573.
isInvalid(s) == s.nan \/ s.n < 0 \/ s.n > Pct(100)

InvalidMarks == [kind |-> "throw",
                 message |-> "Please enter valid marks (KCET: 0-180, PUC: 0-100)"]

null == [kind |-> "null"]

\* Mutant of Prediction: low and high are exchanged.
PredictionBandExchanged(medium, s) ==
  [kind |-> "return",
   low |-> RoundMul105(medium),
   medium |-> medium,
   high |-> RoundMul095(medium),
   composite |-> s,
   percentile |-> calculatePercentile(medium),
   rankBand |-> getRankBand(medium),
   competitionLevel |-> getCompetitionLevel(s)]

\* The object built at lines 616-624 and 644-652 from medium and the score.
Prediction(medium, s) ==
  [kind |-> "return",
   low |-> RoundMul095(medium),
   medium |-> medium,
   high |-> RoundMul105(medium),
   composite |-> s,
   percentile |-> calculatePercentile(medium),
   rankBand |-> getRankBand(medium),
   competitionLevel |-> getCompetitionLevel(s)]

\* Mutant of interpolatedMedium: the rank is truncated, not rounded.
interpolatedMediumTruncated(currentEntry, nextEntry, s) ==
  LET scoreDiff == Q(currentEntry.score) - Q(nextEntry.score)
      rankDiff == nextEntry.rank - currentEntry.rank
      scoreOffset == Q(currentEntry.score) - s
  IN (currentEntry.rank * scoreDiff + scoreOffset * rankDiff) \div scoreDiff

\* Mutant of interpolatedMedium: the offset is measured from the lower score.
interpolatedMediumFromBelow(currentEntry, nextEntry, s) ==
  LET scoreDiff == Q(currentEntry.score) - Q(nextEntry.score)
      rankDiff == nextEntry.rank - currentEntry.rank
      scoreOffset == s - Q(nextEntry.score)
  IN RoundDiv(currentEntry.rank * scoreDiff + scoreOffset * rankDiff, scoreDiff)

\* Lines 607-612: the rounded interpolated rank between two entries.
interpolatedMedium(currentEntry, nextEntry, s) ==
  LET scoreDiff == Q(currentEntry.score) - Q(nextEntry.score)
      rankDiff == nextEntry.rank - currentEntry.rank
      scoreOffset == Q(currentEntry.score) - s
  IN RoundDiv(currentEntry.rank * scoreDiff + scoreOffset * rankDiff, scoreDiff)

\* Mutant of interpolate: a pair matches only strictly inside its interval.
RECURSIVE interpolateStrict(_, _)
interpolateStrict(s, i) ==
  IF i > Len(RankTable) - 1 THEN null
  ELSE LET currentEntry == RankTable[i]
           nextEntry == RankTable[i + 1]
       IN IF s < Q(currentEntry.score) /\ s > Q(nextEntry.score)
          THEN Prediction(interpolatedMedium(currentEntry, nextEntry, s), s)
          ELSE interpolateStrict(s, i + 1)

\* The loop of lines 602-627 from index i (1-based): the first adjacent pair
\* that brackets s decides; null when the loop ends without a match.
RECURSIVE interpolate(_, _)
interpolate(s, i) ==
  IF i > Len(RankTable) - 1 THEN null
  ELSE LET currentEntry == RankTable[i]
           nextEntry == RankTable[i + 1]
       IN IF s <= Q(currentEntry.score) /\ s >= Q(nextEntry.score)
          THEN Prediction(interpolatedMedium(currentEntry, nextEntry, s), s)
          ELSE interpolate(s, i + 1)

\* The loop of lines 635-641 from index i, with the closest entry so far.
RECURSIVE closestEntry(_, _, _)
closestEntry(s, i, closest) ==
  IF i > Len(RankTable) THEN closest
  ELSE IF Abs(s - Q(RankTable[i].score)) < Abs(s - Q(closest.score))
       THEN closestEntry(s, i + 1, RankTable[i])
       ELSE closestEntry(s, i + 1, closest)

\* Lines 631-653: the nearest calibration point's rank.
fallback(s) == Prediction(closestEntry(s, 2, RankTable[1]).rank, s)

\* Mutant of TopResult: the rank of the highest calibration point.
TopResultFromTable(s) ==
  [kind |-> "return", low |-> RankTable[1].rank,
   medium |-> RankTable[1].rank, high |-> RankTable[1].rank,
   composite |-> s, percentile |-> "Top 0.01%", rankBand |-> "Elite",
   competitionLevel |-> "Extremely High"]

\* Lines 580-589.
TopResult(s) ==
  [kind |-> "return", low |-> 1, medium |-> 1, high |-> 1, composite |-> s,
   percentile |-> "Top 0.01%", rankBand |-> "Elite",
   competitionLevel |-> "Extremely High"]

\* Lines 590-599.
BottomResult(s) ==
  [kind |-> "return", low |-> 250000, medium |-> 260000, high |-> 270000,
   composite |-> s, percentile |-> "Bottom 20%", rankBand |-> "Lower",
   competitionLevel |-> "Moderate"]

\* Line 580: at or above the highest calibration score.
atTop(s) == s >= Q(RankTable[1].score)

\* Mutant of atBottom: the lowest calibration score itself is interpolated.
atBottomStrict(s) == s < Q(RankTable[Len(RankTable)].score)

\* Line 590: at or below the lowest calibration score.
atBottom(s) == s <= Q(RankTable[Len(RankTable)].score)

\* Mutant of predictKCETRank: marks outside KCET 0-180 or PUC 0-100 are
\* rejected before the composite is looked at.
predictKCETRankRangeChecked(c, p) ==
  LET s == combinedScore(c, p)
  IN IF isInvalid(s) \/ c.n < 0 \/ c.n > MaxKCET \/ p.n < 0 \/ p.n > MaxPUC
     THEN InvalidMarks
     ELSE IF atTop(s.n) THEN TopResult(s.n)
     ELSE IF atBottom(s.n) THEN BottomResult(s.n)
     ELSE LET result == interpolate(s.n, 1)
          IN IF result = null THEN fallback(s.n) ELSE result

predictKCETRank(c, p) ==
  LET s == combinedScore(c, p)
  IN IF isInvalid(s) THEN InvalidMarks
     ELSE IF atTop(s.n) THEN TopResult(s.n)
     ELSE IF atBottom(s.n) THEN BottomResult(s.n)
     ELSE LET result == interpolate(s.n, 1)
          IN IF result = null THEN fallback(s.n) ELSE result

(***************************************************************************)
(* The review service.  localStorage holds strings under two keys;         *)
(* supabase is the remote database as the service sees it: the rows of     *)
(* colleges and college_reviews, oldest first, and the number of rows      *)
(* created so far, from which the database makes its ids.  A review is a   *)
(* record of the fields that identify it and its author; ratings and texts *)
(* are copied through unread and are left out.  Values that may be         *)
(* undefined or null are held as Str(s), undefined or null.                *)
(***************************************************************************)
Str(s) == [kind |-> "string", value |-> s]

\* Fields of a review whose value may be undefined.
OptionalFields == {"user_id", "session_id", "collegeCode", "course"}

\* JSON.stringify of an array of reviews, as the text's content: properties
\* whose value is undefined are left out; null is kept.
stringify(reviews) ==
  [kind |-> "json",
   value |-> [i \in 1..Len(reviews) |->
                [f \in {g \in DOMAIN reviews[i] :
                          g \notin OptionalFields \/ reviews[i][g] # undefined}
                   |-> reviews[i][f]]]]

\* JSON.parse(localStorage.getItem(key) || '[]').
parseOrEmpty(storage, key) ==
  IF storage[key] = null THEN <<>> ELSE storage[key].value

\* object.field of a review: undefined when the property is missing.
Field(object, field) ==
  IF field \in DOMAIN object THEN object[field] ELSE undefined

\* Mutant of getUserSessionId: every call stores uuid as a new session id.
getUserSessionIdAlwaysNew(storage, uuid) ==
  [storage |-> [storage EXCEPT !.user_session_id = Str(uuid)],
   sessionId |-> Str(uuid)]

\* Lines 33-43: the stored session id, or uuid stored as the new one.
getUserSessionId(storage, uuid) ==
  IF storage.user_session_id = null
  THEN [storage |-> [storage EXCEPT !.user_session_id = Str(uuid)],
        sessionId |-> Str(uuid)]
  ELSE [storage |-> storage, sessionId |-> storage.user_session_id]

\* Lines 46-56.
loadReviewsFromLocalStorage(storage) == parseOrEmpty(storage, "local_reviews")

RECURSIVE Reverse(_)
Reverse(s) == IF s = <<>> THEN <<>> ELSE Append(Reverse(Tail(s)), Head(s))

\* Lines 90-111: a row shown without its college.
reviewWithoutCollege(review) ==
  [id |-> review.id, college_id |-> review.college_id,
   user_id |-> review.user_id, session_id |-> review.session_id,
   collegeCode |-> Str("Unknown"), author |-> "Anonymous User",
   course |-> Str("")]

\* Lines 122-155: a row shown with its college and its author.
reviewWithCollege(review, collegesFound, currentSessionId) ==
  LET college == SelectSeq(collegesFound, LAMBDA c : c.id = review.college_id)
      isCurrentUser == \/ review.user_id = currentSessionId
                       \/ review.session_id = currentSessionId
  IN [id |-> review.id, college_id |-> review.college_id,
      user_id |-> review.user_id, session_id |-> review.session_id,
      collegeCode |-> IF college = <<>> THEN undefined
                      ELSE Str(college[1].code),
      author |-> IF isCurrentUser THEN "You" ELSE "Anonymous User",
      course |-> Str("")]

\* Lines 59-160.  answers.reviews and answers.colleges are what the two
\* queries meet: "ok", "error" (an error object is returned) or "throw".
\* Every failure is caught inside and answered with an empty list.
loadReviewsFromSupabase(storage, db, uuid, answers) ==
  LET reviews == Reverse(db.college_reviews)
      session == getUserSessionId(storage, uuid)
  IN IF answers.reviews # "ok" \/ reviews = <<>>
     THEN [kind |-> "return", storage |-> storage, value |-> <<>>]
     ELSE IF answers.colleges = "throw"
     THEN [kind |-> "return", storage |-> storage, value |-> <<>>]
     ELSE IF answers.colleges = "error"
     THEN [kind |-> "return", storage |-> storage,
           value |-> [i \in 1..Len(reviews) |-> reviewWithoutCollege(reviews[i])]]
     ELSE [kind |-> "return", storage |-> session.storage,
           value |-> [i \in 1..Len(reviews) |->
                        reviewWithCollege(reviews[i], db.colleges,
                                          session.sessionId)]]

\* Lines 185-198: localStorage is read only when loadReviewsFromSupabase
\* rejects.
loadCollegeReviews(storage, db, uuid, answers) ==
  LET supabaseReviews == loadReviewsFromSupabase(storage, db, uuid, answers)
  IN IF supabaseReviews.kind = "return" THEN supabaseReviews
     ELSE [kind |-> "return", storage |-> storage,
           value |-> loadReviewsFromLocalStorage(storage)]

\* Lines 364-413; timestamp is what Date.now() and Math.random() give.
saveToLocalStorage(storage, timestamp, uuid, reviewData) ==
  LET session == getUserSessionId(storage, uuid)
      mockReview == [id |-> "local_" \o ToString(timestamp),
                     college_id |-> "college_" \o reviewData.collegeCode,
                     session_id |-> session.sessionId,
                     collegeCode |-> Str(reviewData.collegeCode),
                     author |-> "You",
                     course |-> reviewData.course]
      existingReviews == parseOrEmpty(session.storage, "local_reviews")
  IN [storage |-> [session.storage EXCEPT !.local_reviews =
                     stringify(Append(existingReviews, mockReview))],
      value |-> mockReview]

\* The colleges of the database with a code.
collegesWithCode(db, code) == SelectSeq(db.colleges, LAMBDA c : c.code = code)

\* Mutant of insertReview: a failed insert is answered with null.
insertReviewOrNull(storage, db, timestamp, uuid, reviewData, collegeData, answer) ==
  LET session == getUserSessionId(storage, uuid)
      data == [id |-> "review_" \o ToString(db.created + 1),
               college_id |-> collegeData.id,
               user_id |-> null,
               session_id |-> session.sessionId]
  IN IF answer # "ok"
     THEN [db |-> db, storage |-> session.storage, value |-> null]
     ELSE [db |-> [db EXCEPT !.college_reviews = Append(@, data),
                             !.created = @ + 1],
           storage |-> session.storage,
           value |-> [id |-> data.id, college_id |-> data.college_id,
                      user_id |-> data.user_id,
                      session_id |-> data.session_id,
                      collegeCode |-> Str(reviewData.collegeCode),
                      author |-> "You", course |-> Str("")]]

\* Lines 299-355: the review is inserted for a college row and returned, or
\* saved locally when the insert fails.
insertReview(storage, db, timestamp, uuid, reviewData, collegeData, answer) ==
  LET session == getUserSessionId(storage, uuid)
      data == [id |-> "review_" \o ToString(db.created + 1),
               college_id |-> collegeData.id,
               user_id |-> null,
               session_id |-> session.sessionId]
  IN IF answer # "ok"
     THEN [db |-> db] @@
          saveToLocalStorage(session.storage, timestamp, uuid, reviewData)
     ELSE [db |-> [db EXCEPT !.college_reviews = Append(@, data),
                             !.created = @ + 1],
           storage |-> session.storage,
           value |-> [id |-> data.id, college_id |-> data.college_id,
                      user_id |-> data.user_id,
                      session_id |-> data.session_id,
                      collegeCode |-> Str(reviewData.collegeCode),
                      author |-> "You", course |-> Str("")]]

\* Lines 220-361.  answers holds what each request meets: lookup, create,
\* refetch and insert, each "ok", "error" or "throw" ("duplicate" for an
\* error with code 23505 on create, "unasked" for a request not made).
saveReviewToSupabase(storage, db, timestamp, uuid, reviewData, answers) ==
  LET local == [db |-> db] @@
               saveToLocalStorage(storage, timestamp, uuid, reviewData)
      existing == collegesWithCode(db, reviewData.collegeCode)
      newCollege == [id |-> "college_" \o ToString(db.created + 1),
                     code |-> reviewData.collegeCode]
      created == [db EXCEPT !.colleges = Append(@, newCollege),
                            !.created = @ + 1]
  IN IF answers.lookup = "throw" THEN local
     ELSE IF answers.lookup = "ok"
     THEN insertReview(storage, db, timestamp, uuid, reviewData, existing[1],
                       answers.insert)
     ELSE IF answers.create = "ok"
     THEN insertReview(storage, created, timestamp, uuid, reviewData, newCollege,
                       answers.insert)
     ELSE IF answers.create = "duplicate" /\ answers.refetch = "ok"
     THEN insertReview(storage, db, timestamp, uuid, reviewData, existing[1],
                       answers.insert)
     ELSE local

\* Lines 416-436: the rows with the id are deleted when the request is
\* served; a served request reports no error, whether or not a row matched.
deleteReviewFromSupabase(db, reviewId, answer) ==
  IF answer = "ok"
  THEN [db |-> [db EXCEPT !.college_reviews =
                  SelectSeq(@, LAMBDA review : review.id # reviewId)],
        value |-> TRUE]
  ELSE [db |-> db, value |-> FALSE]

\* Lines 439-454.
deleteFromLocalStorage(storage, reviewId) ==
  LET existingReviews == parseOrEmpty(storage, "local_reviews")
      updatedReviews == SelectSeq(existingReviews,
                               LAMBDA review : review.id # reviewId)
  IN [storage |-> [storage EXCEPT !.local_reviews = stringify(updatedReviews)],
      value |-> TRUE]

\* Lines 458-459: the two properties of a review that isUserReview reads.
\* The reviews handed to isUserReview are kept as these two.
Owner(review) ==
  [user_id |-> Field(review, "user_id"),
   session_id |-> Field(review, "session_id")]

\* Mutant of isUserReview: only user_id is compared with the session id.
isUserReviewByUserId(storage, uuid, review) ==
  LET session == getUserSessionId(storage, uuid)
  IN [storage |-> session.storage, sessionId |-> session.sessionId,
      value |-> Field(review, "user_id") = session.sessionId]

\* Lines 457-472.
isUserReview(storage, uuid, review) ==
  LET session == getUserSessionId(storage, uuid)
      reviewUserId == Field(review, "user_id")
      reviewSessionId == Field(review, "session_id")
  IN [storage |-> session.storage, sessionId |-> session.sessionId,
      value |-> \/ reviewUserId = session.sessionId
                \/ reviewSessionId = session.sessionId]

\* Lines 475-491.
deleteReview(storage, db, reviewId, answer) ==
  LET supabaseSuccess == deleteReviewFromSupabase(db, reviewId, answer)
  IN IF supabaseSuccess.value
     THEN [storage |-> storage, db |-> supabaseSuccess.db, value |-> TRUE]
     ELSE [db |-> supabaseSuccess.db] @@ deleteFromLocalStorage(storage, reviewId)

(***************************************************************************)
(* The state machine: callers invoke predictKCETRank with any two numbers. *)
(* cet, puc are the arguments of the latest call and outcome what it       *)
(* returned or threw; prev is a history variable, the outcome of the call  *)
(* before, recorded only in the two-call specification.                    *)
(***************************************************************************)
none == [kind |-> "none"]

ExamScores == {Num(i) : i \in (0 - Margin)..(MaxKCET + Margin)} \cup {NaN}
PucScores == {Num(i) : i \in (0 - Margin)..(MaxPUC + Margin)} \cup {NaN}

\* In-range marks for the two-call specification.
PairExamScores == {Num(i) : i \in 0..MaxKCET}
PairPucScores == {Num(i) : i \in {j \in 0..MaxPUC : j % PucStep = 0}}

\* The tables as the module's initialisers leave them.
InitialTables ==
  [kcet2025RankTable |-> kcet2025RankTable, rankGapAnalysis |-> rankGapAnalysis]

Init ==
  /\ cet = Num(0)
  /\ puc = Num(0)
  /\ outcome = none
  /\ prev = none
  /\ tables = InitialTables
  /\ helper = none
  /\ localStorage = [user_session_id |-> null, local_reviews |-> null]
  /\ supabase = [colleges |-> <<>>, college_reviews |-> <<>>, created |-> 0]
  /\ clock = 0
  /\ reviewCall = none
  /\ returned = {}

\* Mutant of Predict: the call reverses the calibration table in place.
PredictReversingTable(c, p) ==
  /\ cet' = c
  /\ puc' = p
  /\ outcome' = predictKCETRank(c, p)
  /\ tables' = [tables EXCEPT !.kcet2025RankTable =
                  [i \in 1..Len(@) |-> @[Len(@) + 1 - i]]]

\* predictKCETRank(c, p) runs to completion: it is synchronous.
Predict(c, p) ==
  /\ cet' = c
  /\ puc' = p
  /\ outcome' = predictKCETRank(c, p)
  /\ tables' = tables

\* A caller with no outcome in hand makes a call.
Call(c, p) ==
  /\ Predict(c, p)
  /\ UNCHANGED <<prev, helper>>
  /\ UNCHANGED reviewVars

\* A caller makes a first call, or a second one keeping the first outcome.
CallAgain(c, p) ==
  /\ Predict(c, p)
  /\ prev' = outcome
  /\ UNCHANGED helper
  /\ UNCHANGED reviewVars

\* The caller drops what it holds; the predictor keeps nothing of a call.
Forget ==
  /\ outcome # none \/ helper # none
  /\ cet' = Num(0)
  /\ puc' = Num(0)
  /\ outcome' = none
  /\ prev' = none
  /\ helper' = none
  /\ UNCHANGED tables
  /\ UNCHANGED reviewVars

Next ==
  \/ /\ outcome = none /\ helper = none
     /\ \E c \in ExamScores, p \in PucScores : Call(c, p)
  \/ Forget

Spec == Init /\ [][Next]_vars

NextPair ==
  \/ /\ prev = none
     /\ \E c \in PairExamScores, p \in PairPucScores : CallAgain(c, p)
  \/ Forget

SpecPair == Init /\ [][NextPair]_vars

\* Marks for sequences of calls: a grid over the documented ranges and
\* Margin beyond them, and NaN.
RepeatExamScores ==
  {Num(i) : i \in {j \in (0 - Margin)..(MaxKCET + Margin) :
                     (j + Margin) % RepeatStep = 0}} \cup {NaN}
RepeatPucScores ==
  {Num(i) : i \in {j \in (0 - Margin)..(MaxPUC + Margin) :
                     (j + Margin) % RepeatStep = 0}} \cup {NaN}

\* A call is made, and the call before it is the one remembered from now on.
CallRemembering(c, p) ==
  /\ outcome # none
  /\ Predict(c, p)
  /\ prev' = [kind |-> "call", cet |-> cet, puc |-> puc, outcome |-> outcome]
  /\ UNCHANGED helper
  /\ UNCHANGED reviewVars

\* Any sequence of calls, failing ones included; prev is some earlier call of
\* the sequence.  Calls are synchronous, so they never overlap.
NextRepeat ==
  \E c \in RepeatExamScores, p \in RepeatPucScores :
    Call(c, p) \/ CallRemembering(c, p)

SpecRepeat == Init /\ [][NextRepeat]_vars

(***************************************************************************)
(* The exported helpers are pure functions of a rank; helper holds the     *)
(* latest call of one of them: its name, its arguments and its result.     *)
(***************************************************************************)
Ranks == (0 - Margin)..MaxRank

Idle == outcome = none /\ helper = none

\* getRankBand(rank) is called.
RankBand(rank) ==
  /\ helper' = [kind |-> "getRankBand", rank |-> rank,
                result |-> getRankBand(rank)]
  /\ UNCHANGED <<cet, puc, outcome, prev, tables>>
  /\ UNCHANGED reviewVars

NextRankBand ==
  \/ /\ Idle
     /\ \E rank \in Ranks : RankBand(rank)
  \/ Forget

SpecRankBand == Init /\ [][NextRankBand]_vars

\* calculatePercentile(rank) is called.
Percentile(rank) ==
  /\ helper' = [kind |-> "calculatePercentile", rank |-> rank,
                result |-> calculatePercentile(rank)]
  /\ UNCHANGED <<cet, puc, outcome, prev, tables>>
  /\ UNCHANGED reviewVars

\* Callers of calculatePercentile, predictKCETRank among them.
NextPercentile ==
  \/ /\ Idle
     /\ \/ \E rank \in Ranks : Percentile(rank)
        \/ \E c \in ExamScores, p \in PucScores : Call(c, p)
  \/ Forget

SpecPercentile == Init /\ [][NextPercentile]_vars

\* Categories a caller passes: the four of the table, strings that name
\* nothing, and strings that name a member of Object.prototype.
Categories ==
  {"general", "obc", "sc", "st", "GENERAL", "ews", "", "constructor", "toString"}

CollegeRanks == (0 - Margin)..MaxCollegeRank

\* getCollegeSuggestions(rank, category) is called.
CollegeSuggestions(rank, category) ==
  /\ helper' = [kind |-> "getCollegeSuggestions", rank |-> rank,
                category |-> category,
                result |-> getCollegeSuggestions(rank, category)]
  /\ UNCHANGED <<cet, puc, outcome, prev, tables>>
  /\ UNCHANGED reviewVars

NextCollegeSuggestions ==
  \/ /\ Idle
     /\ \E rank \in CollegeRanks, category \in Categories :
          CollegeSuggestions(rank, category)
  \/ Forget

SpecCollegeSuggestions == Init /\ [][NextCollegeSuggestions]_vars

\* Scores passed to getRankGapAnalysis, in 300ths: every composite of
\* [0, 100] on that grid, and some outside.
GapScores == (0 - Margin)..(Pct(100) + Margin)

\* getRankGapAnalysis(score) is called.
RankGapAnalysis(score) ==
  /\ helper' = [kind |-> "getRankGapAnalysis", score |-> score,
                result |-> getRankGapAnalysis(score)]
  /\ UNCHANGED <<cet, puc, outcome, prev, tables>>
  /\ UNCHANGED reviewVars

NextRankGapAnalysis ==
  \/ /\ Idle
     /\ \E score \in GapScores : RankGapAnalysis(score)
  \/ Forget

SpecRankGapAnalysis == Init /\ [][NextRankGapAnalysis]_vars

(***************************************************************************)
(* The review service's state machine.  A visitor saves, loads and deletes *)
(* reviews in any order; every request to Supabase is answered as the      *)
(* network and the database decide.  An operation runs to its end before   *)
(* the next one starts.  clock counts the saves, and stands for Date.now() *)
(* and the random suffix of a local id, which no two saves share.          *)
(* returned is a history variable: the owners of the reviews the saves     *)
(* have resolved to, each with the session id stored when its save ended.  *)
(***************************************************************************)
CollegeCodes == {"E001", "E002"}
Uuids == {"uuid_a", "uuid_b"}
Answers == {"ok", "error", "throw"}

\* What handleSubmitReview passes on: the college and the optional course.
ReviewInputs ==
  [collegeCode : CollegeCodes, course : {undefined, Str("CSE")}]

\* What crypto.randomUUID() may give; it is called only when no session id
\* is stored.
RandomUuids(storage) ==
  IF storage.user_session_id = null THEN Uuids
  ELSE {CHOOSE uuid \in Uuids : TRUE}

\* Ids a visitor may ask to delete: every id either store has given out.
ReviewIds(db, saves) ==
  {"local_" \o ToString(n) : n \in 1..saves}
    \cup {"review_" \o ToString(n) : n \in 1..db.created}

\* The answers saveReviewToSupabase can meet in a database state: single()
\* answers a lookup with a row or with an error, codes are unique among
\* colleges, and a request the code does not make has no answer.
SaveAnswers(db, reviewData) ==
  LET exists == collegesWithCode(db, reviewData.collegeCode) # <<>>
  IN {a \in [lookup : Answers,
             create : Answers \cup {"duplicate", "unasked"},
             refetch : Answers \cup {"unasked"},
             insert : Answers \cup {"unasked"}] :
        LET create == a.lookup = "error"
            refetch == create /\ a.create = "duplicate"
            insert == \/ a.lookup = "ok"
                      \/ create /\ a.create = "ok"
                      \/ refetch /\ a.refetch = "ok"
        IN /\ a.lookup = "ok" => exists
           /\ a.create = "unasked" <=> ~create
           /\ a.create = "ok" => ~exists
           /\ a.create = "duplicate" => exists
           /\ a.refetch = "unasked" <=> ~refetch
           /\ a.refetch = "ok" => exists
           /\ a.insert = "unasked" <=> ~insert}

\* The answers loadReviewsFromSupabase can meet.
LoadAnswers(db) ==
  {a \in [reviews : Answers, colleges : Answers \cup {"unasked"}] :
     a.colleges = "unasked" <=>
       (a.reviews # "ok" \/ db.college_reviews = <<>>)}

\* Lines 122-140 of the review modal: what handleSubmitReview does with the
\* value saveReviewToSupabase resolved to.
handleSubmitReview(savedReview) ==
  IF savedReview = null THEN "Review save returned null" ELSE "onAddReview"

\* handleSubmitReview: saveReviewToSupabase(reviewData).
SaveReview(reviewData, answers, uuid) ==
  /\ clock < MaxSaves
  /\ LET saved == saveReviewToSupabase(localStorage, supabase, clock + 1,
                                       uuid, reviewData, answers)
     IN /\ localStorage' = saved.storage
        /\ supabase' = saved.db
        /\ reviewCall' = [kind |-> "saveReviewToSupabase",
                          reviewData |-> reviewData, answers |-> answers,
                          value |-> saved.value,
                          shown |-> handleSubmitReview(saved.value)]
        /\ returned' = returned \cup
                         {[review |-> Owner(saved.value),
                           session |-> saved.storage.user_session_id]}
  /\ clock' = clock + 1
  /\ UNCHANGED predictorVars

\* loadCollegeReviews().
LoadReviews(answers, uuid) ==
  /\ LET loaded == loadCollegeReviews(localStorage, supabase, uuid, answers)
     IN /\ localStorage' = loaded.storage
        /\ reviewCall' = [kind |-> "loadCollegeReviews", answers |-> answers,
                          value |-> loaded.value]
  /\ UNCHANGED <<supabase, clock, returned>>
  /\ UNCHANGED predictorVars

\* handleDeleteReview: deleteReview(reviewId).
DeleteReview(reviewId, answer) ==
  /\ LET deleted == deleteReview(localStorage, supabase, reviewId, answer)
     IN /\ localStorage' = deleted.storage
        /\ supabase' = deleted.db
        /\ reviewCall' = [kind |-> "deleteReview", reviewId |-> reviewId,
                          answer |-> answer, value |-> deleted.value]
  /\ UNCHANGED <<clock, returned>>
  /\ UNCHANGED predictorVars

\* Reviews of other origin shown on the page: with and without a user_id
\* or session_id, which are those of one visitor of this model or of none.
OtherReviews ==
  {[user_id |-> u, session_id |-> s] :
     u \in {null, Str("uuid_a")},
     s \in {undefined, Str("uuid_a"), Str("uuid_other")}}

\* The reviews the page can ask isUserReview about: those the saves
\* resolved to, those of the latest load, and reviews of other origin.
ReviewsShown ==
  {r.review : r \in returned}
    \cup (IF reviewCall.kind = "loadCollegeReviews"
          THEN {Owner(reviewCall.value[i]) : i \in 1..Len(reviewCall.value)}
          ELSE {})
    \cup OtherReviews

\* isUserReview(review).
CheckUserReview(review, uuid) ==
  /\ LET checked == isUserReview(localStorage, uuid, review)
     IN /\ localStorage' = checked.storage
        /\ reviewCall' = [kind |-> "isUserReview", review |-> review,
                          sessionId |-> checked.sessionId,
                          value |-> checked.value]
  /\ UNCHANGED <<supabase, clock, returned>>
  /\ UNCHANGED predictorVars

NextReviews ==
  \/ \E reviewData \in ReviewInputs, uuid \in RandomUuids(localStorage) :
       \E answers \in SaveAnswers(supabase, reviewData) :
         SaveReview(reviewData, answers, uuid)
  \/ \E answers \in LoadAnswers(supabase), uuid \in RandomUuids(localStorage) :
       LoadReviews(answers, uuid)
  \/ \E reviewId \in ReviewIds(supabase, clock), answer \in Answers :
       DeleteReview(reviewId, answer)

SpecReviews == Init /\ [][NextReviews]_vars

\* The review service with the page asking which reviews are the visitor's.
NextUserReviews ==
  \/ NextReviews
  \/ \E review \in ReviewsShown, uuid \in RandomUuids(localStorage) :
       CheckUserReview(review, uuid)

SpecUserReviews == Init /\ [][NextUserReviews]_vars

(***************************************************************************)
(* The claims.  They are stated on the arguments of the latest call: the   *)
(* composite 0.6 * (cet / 180 * 100) + 0.4 * puc is Composite300 / 300,    *)
(* and a score of h hundredths is 3 * h in that unit.                      *)
(***************************************************************************)
Called == outcome # none
Returned == outcome.kind = "return"
Threw == outcome.kind = "throw"
NotANumber == cet.nan \/ puc.nan
Composite300 == 100 * cet.n + 120 * puc.n
\* The composite is a number of the closed interval [0, 100].
ValidComposite == ~NotANumber /\ 0 <= Composite300 /\ Composite300 <= 300 * 100
\* The composite lies strictly between 35.00 and 96.22.
Interior == ValidComposite /\ 3 * 3500 < Composite300 /\ Composite300 < 3 * 9622
\* m is x / d rounded to the nearest integer, halves upwards (d > 0).
IsRoundOf(m, x, d) == (2 * m - 1) * d <= 2 * x /\ 2 * x < (2 * m + 1) * d

\* C1: a call throws, and returns no prediction, exactly when the composite
\* is not a number, is below 0 or is above 100; a composite of [0, 100]
\* always gets a prediction.
C1_DomainRejection ==
  Called =>
    /\ Threw <=> (NotANumber \/ Composite300 < 0 \/ Composite300 > 300 * 100)
    /\ Threw => DOMAIN outcome = {"kind", "message"}
    /\ ValidComposite => Returned

\* predictKCETRank(NaN, 50) has thrown.
C1_Witness == cet = NaN /\ puc = Num(50) /\ Threw

\* C2: a valid composite of at least 96.22 yields low = medium = high = 1
\* and rankBand "Elite"; predictKCETRank(180, 100) has composite 100.
C2_TopBoundary ==
  /\ (Called /\ ValidComposite /\ Composite300 >= 3 * 9622) =>
       /\ Returned
       /\ outcome.low = 1 /\ outcome.medium = 1 /\ outcome.high = 1
       /\ outcome.rankBand = "Elite"
  /\ (Called /\ cet = Num(180) /\ puc = Num(100)) =>
       /\ Returned
       /\ outcome.composite = 300 * 100
       /\ outcome.medium = 1
       /\ outcome.rankBand = "Elite"

\* predictKCETRank(180, 100) has returned.
C2_Witness == cet = Num(180) /\ puc = Num(100) /\ Returned /\ outcome.medium = 1

\* C3: a valid composite of at most 35.00 yields low = 250000,
\* medium = 260000, high = 270000.
C3_BottomBoundary ==
  (Called /\ ValidComposite /\ Composite300 <= 3 * 3500) =>
    /\ Returned
    /\ outcome.low = 250000
    /\ outcome.medium = 260000
    /\ outcome.high = 270000

\* A call whose composite is exactly 35.00 has returned the deep-tail ranks.
C3_Witness == Returned /\ Composite300 = 3 * 3500 /\ outcome.medium = 260000

\* The adjacent pair (i, i + 1) of the calibration table brackets the composite.
Brackets(i) ==
  /\ 3 * kcet2025RankTable[i + 1].score <= Composite300
  /\ Composite300 <= 3 * kcet2025RankTable[i].score

\* C4: for a composite strictly between 35.00 and 96.22, medium is the
\* rounding of current.rank + ((current.score - composite) / (current.score
\* - next.score)) * (next.rank - current.rank) for the first adjacent pair
\* with next.score <= composite <= current.score; so a composite equal to
\* an interior calibration score yields that point's rank.
C4_Interpolation ==
  (Called /\ Interior) =>
    /\ Returned
    /\ \E i \in 1..(Len(kcet2025RankTable) - 1) :
         /\ Brackets(i)
         /\ \A j \in 1..(i - 1) : ~Brackets(j)
         /\ LET current == kcet2025RankTable[i]
                next == kcet2025RankTable[i + 1]
                scoreDiff == 3 * (current.score - next.score)
            IN IsRoundOf(outcome.medium,
                         current.rank * scoreDiff
                           + (3 * current.score - Composite300)
                               * (next.rank - current.rank),
                         scoreDiff)
    /\ \A k \in 2..(Len(kcet2025RankTable) - 1) :
         Composite300 = 3 * kcet2025RankTable[k].score
           => outcome.medium = kcet2025RankTable[k].rank

\* predictKCETRank(162, 90): the composite is the calibration score 90.00.
C4_Witness ==
  cet = Num(162) /\ puc = Num(90) /\ Returned /\ outcome.medium = 1245

\* C5: of two predictions for valid composites a < b, the medium for a is
\* at least the medium for b.  prev and outcome are the predictions of two
\* successive calls, in either order of their composites.
C5_Monotonicity ==
  (prev.kind = "return" /\ Returned) =>
    /\ prev.composite < outcome.composite => prev.medium >= outcome.medium
    /\ outcome.composite < prev.composite => outcome.medium >= prev.medium

\* Two calls that straddle the bottom boundary: composite 35.00, then the
\* next composite above it.
C5_Witness ==
  /\ prev.kind = "return" /\ Returned
  /\ prev.composite = 3 * 3500 /\ outcome.composite > 3 * 3500
  /\ outcome.composite < 3 * 3600
  /\ prev.medium > outcome.medium

\* low and high are medium * 0.95 and medium * 1.05 rounded to the nearest
\* integer, halves upwards.
BandOf(r) ==
  /\ IsRoundOf(r.low, 19 * r.medium, 20)
  /\ IsRoundOf(r.high, 21 * r.medium, 20)

\* C6: for a composite strictly between 35.00 and 96.22, low = round(0.95 *
\* medium) and high = round(1.05 * medium), in the prediction returned and
\* in the one the nearest-neighbour rule builds for the same composite.
C6_BandConsistency ==
  (Called /\ Interior) =>
    /\ Returned
    /\ BandOf(outcome)
    /\ BandOf(fallback(Composite300))

\* An interpolated prediction whose 0.95 * medium falls exactly on a half.
C6_Witness == Called /\ Interior /\ Returned /\ outcome.medium % 20 = 10

\* 1 <= low <= medium <= high.
Ordered(r) == 1 <= r.low /\ r.low <= r.medium /\ r.medium <= r.high

\* C7: every prediction returned satisfies 1 <= low <= medium <= high, and
\* so does the one the nearest-neighbour rule builds for an interior
\* composite.
C7_BandOrdered ==
  /\ (Called /\ Returned) => Ordered(outcome)
  /\ (Called /\ Interior) => Ordered(fallback(Composite300))

\* An interpolated prediction with low < medium < high.
C7_Witness ==
  /\ Called /\ Interior /\ Returned
  /\ outcome.low < outcome.medium /\ outcome.medium < outcome.high

\* C8: the rankBand of every prediction returned is getRankBand of its
\* medium, whichever path produced it; predictKCETRank(0, 0) returns medium
\* 260000 with rankBand "Very Poor".
C8_RankBandOfMedium ==
  /\ (Called /\ Returned) => outcome.rankBand = getRankBand(outcome.medium)
  /\ (Called /\ cet = Num(0) /\ puc = Num(0)) =>
       /\ Returned
       /\ outcome.medium = 260000
       /\ outcome.rankBand = "Very Poor"

\* The ladder of competition levels on a composite given in 300ths.
CompetitionLadder(q) ==
  CASE q >= 300 * 95 -> "Extremely High"
    [] q < 300 * 95 /\ q >= 300 * 90 -> "Very High"
    [] q < 300 * 90 /\ q >= 300 * 85 -> "High"
    [] q < 300 * 85 /\ q >= 300 * 80 -> "Moderately High"
    [] q < 300 * 80 /\ q >= 300 * 75 -> "Moderate"
    [] q < 300 * 75 /\ q >= 300 * 70 -> "Moderately Low"
    [] q < 300 * 70 /\ q >= 300 * 60 -> "Low"
    [] q < 300 * 60 -> "Very Low"

\* C9: the competitionLevel of every prediction returned is the ladder's
\* value on the prediction's composite, on the boundary paths as well.
C9_CompetitionLevelOfComposite ==
  (Called /\ Returned) =>
    outcome.competitionLevel = CompetitionLadder(outcome.composite)

\* C10 as claimed: predictKCETRank(162, 96) has composite 92.4, between the
\* calibration points (94.06, 308) and (90.00, 1245), and returns medium
\* 714 with rankBand "Excellent".
C10_Scenario714 ==
  (Called /\ cet = Num(162) /\ puc = Num(96)) =>
    /\ Returned
    /\ outcome.composite = 3 * 9240
    /\ outcome.medium = 714
    /\ outcome.rankBand = "Excellent"

\* C10 amended: predictKCETRank(162, 96) has composite 92.4, the first
\* bracketing pair is (94.06, 308), (90.00, 1245), and it returns medium
\* 691, the rounding of 308 + ((94.06 - 92.4) / (94.06 - 90.00)) *
\* (1245 - 308), with rankBand "Excellent".
C10_Scenario691 ==
  (Called /\ cet = Num(162) /\ puc = Num(96)) =>
    /\ Returned
    /\ outcome.composite = 3 * 9240
    /\ Brackets(2) /\ ~Brackets(1)
    /\ kcet2025RankTable[2] = [score |-> 9406, rank |-> 308]
    /\ kcet2025RankTable[3] = [score |-> 9000, rank |-> 1245]
    /\ IsRoundOf(outcome.medium,
                 308 * (9406 - 9000) + (9406 - 9240) * (1245 - 308),
                 9406 - 9000)
    /\ outcome.medium = 691
    /\ outcome.rankBand = "Excellent"

\* predictKCETRank(162, 96) has returned.
C10_Witness ==
  cet = Num(162) /\ puc = Num(96) /\ Returned /\ outcome.medium = 691


\* One of the marks lies outside its documented range (KCET 0-180, PUC 0-100).
OutOfRange ==
  /\ ~NotANumber
  /\ \/ cet.n < 0 \/ cet.n > MaxKCET
     \/ puc.n < 0 \/ puc.n > MaxPUC

\* C11: the composite check is the only validation: a call whose marks lie
\* outside their documented ranges is accepted whenever the composite is in
\* [0, 100] and rejected only when it is not, and the accepted call is
\* answered for that composite.
C11_OnlyCompositeValidated ==
  (Called /\ OutOfRange) =>
    /\ Returned <=> ValidComposite
    /\ Returned => outcome.composite = Composite300

\* A negative KCET mark and a PUC mark above 100 with composite 43.80.
C11_Witness ==
  cet = Num(-3) /\ puc = Num(112) /\ Returned /\ outcome.composite = 13140

\* The ladder of rank bands: band i holds the ranks above the threshold of
\* band i - 1 up to its own threshold; the last band has no threshold.
BandThresholds ==
  <<200, 1200, 3000, 8000, 16000, 30000, 50000, 80000, 155000>>
BandLabels ==
  <<"Elite", "Excellent", "Very Good", "Good", "Above Average", "Average",
    "Below Average", "Lower", "Poor", "Very Poor">>
InBand(i, r) ==
  /\ i = 1 \/ r > BandThresholds[i - 1]
  /\ i = Len(BandLabels) \/ r <= BandThresholds[i]

\* C12: getRankBand gives every rank the label of the one band of the ladder
\* that holds it; a rank equal to a threshold is in the better band.
C12_RankBandLadder ==
  helper.kind = "getRankBand" =>
    LET holding == {i \in 1..Len(BandLabels) : InBand(i, helper.rank)}
    IN /\ Cardinality(holding) = 1
       /\ \A i \in holding : helper.result = BandLabels[i]
       /\ \A i \in 1..Len(BandThresholds) :
            helper.rank = BandThresholds[i] => helper.result = BandLabels[i]

\* The threshold 8000 is "Good", the better of the two bands it separates.
C12_Witness ==
  helper.kind = "getRankBand" /\ helper.rank = 8000 /\ helper.result = "Good"

\* The text of h hundredths with exactly two decimals and a trailing "%",
\* with a minus sign when negative is set.
PercentText(negative, h) ==
  (IF negative THEN "-" ELSE "") \o ToString(h \div 100) \o "."
    \o ToString((h % 100) \div 10) \o ToString(h % 10) \o "%"

\* The exact percentile of a rank is (260000 - rank) / 2600, that is
\* (260000 - rank) / 26 hundredths; its third decimal is exactly 5 when
\* the remainder of that division is 13.
ExactTie(rank) == Abs(260000 - rank) % 26 = 13

\* text is the exact percentile of rank rounded to two decimals, halves
\* away from zero.
IsHalfUpPercentile(text, rank) ==
  text = PercentText(rank > 260000, RoundDiv(Abs(260000 - rank), 26))

\* text is a two-decimal value nearest to the exact percentile of rank: the
\* one nearest value, or either neighbour when the third decimal is exactly 5.
IsNearestPercentile(text, rank) ==
  \/ IsHalfUpPercentile(text, rank)
  \/ /\ ExactTie(rank)
     /\ text = PercentText(rank > 260000, RoundDiv(Abs(260000 - rank), 26) - 1)

\* C13 as claimed: calculatePercentile(rank) is ((260000 - rank) / 260000)
\* * 100 rounded to two decimals (halves upwards in magnitude) followed by
\* "%", for every integer rank; calculatePercentile(1000) is "99.62%"; the
\* percentile of every interpolated prediction is calculatePercentile of
\* its medium.
C13_PercentileRounded ==
  /\ helper.kind = "calculatePercentile" =>
       /\ IsHalfUpPercentile(helper.result, helper.rank)
       /\ helper.rank = 1000 => helper.result = "99.62%"
  /\ (Called /\ Interior) =>
       /\ Returned
       /\ outcome.percentile = calculatePercentile(outcome.medium)
       /\ IsHalfUpPercentile(outcome.percentile, outcome.medium)

\* C13, amended: calculatePercentile(rank) is a two-decimal value nearest to
\* ((260000 - rank) / 260000) * 100 followed by "%"; when the third decimal
\* of the exact value is 5 the double arithmetic decides between the two
\* neighbours.  calculatePercentile(1000) is "99.62%", and the percentile of
\* every interpolated prediction is calculatePercentile of its medium.
C13_PercentileNearest ==
  /\ helper.kind = "calculatePercentile" =>
       /\ IsNearestPercentile(helper.result, helper.rank)
       /\ helper.rank = 1000 => helper.result = "99.62%"
  /\ (Called /\ Interior) =>
       /\ Returned
       /\ outcome.percentile = calculatePercentile(outcome.medium)
       /\ IsNearestPercentile(outcome.percentile, outcome.medium)

\* Rank 117 has the exact percentile 99.955 and gets "99.95%".
C13_Witness ==
  /\ helper.kind = "calculatePercentile"
  /\ helper.rank = 117
  /\ ExactTie(117)
  /\ helper.result = "99.95%"

\* The suggestion table of a category: its own, or the "general" one when
\* the category is none of general, obc, sc, st.
TableOf(category) ==
  IF category \in {"general", "obc", "sc", "st"}
  THEN colleges[category] ELSE colleges["general"]

\* C14: getCollegeSuggestions(rank, category) raises no error, whatever the
\* category, and returns the name and branch of the first entry of the
\* category's table whose threshold is >= rank, or "Other colleges" / "All
\* branches" when rank exceeds every threshold; (500, "general") gives
\* "MSRIT, PESIT, BMSIT" / "CSE, ECE, ISE".
C14_CollegeSuggestion ==
  helper.kind = "getCollegeSuggestions" =>
    LET table == TableOf(helper.category)
        fits == {i \in 1..Len(table) : table[i].rank >= helper.rank}
        first == CHOOSE i \in fits : \A j \in fits : i <= j
    IN /\ helper.result.kind = "return"
       /\ IF fits = {}
          THEN /\ helper.result.value.name = "Other colleges"
               /\ helper.result.value.branch = "All branches"
          ELSE /\ helper.result.value.name = table[first].name
               /\ helper.result.value.branch = table[first].branch
       /\ (helper.rank = 500 /\ helper.category = "general") =>
            /\ helper.result.value.name = "MSRIT, PESIT, BMSIT"
            /\ helper.result.value.branch = "CSE, ECE, ISE"

\* The percentage ranges of the buckets, in table order.
BucketRanges ==
  << <<95, 100>>, <<90, 95>>, <<85, 90>>, <<80, 85>>, <<75, 80>>,
     <<70, 75>>, <<60, 70>>, <<50, 60>>, <<40, 50>>, <<30, 40>> >>
\* Bucket i contains a score given in 300ths.
Contains(i, score) ==
  300 * BucketRanges[i][1] <= score /\ score <= 300 * BucketRanges[i][2]
\* The result carries the two strings of bucket i.
FromBucket(result, i) ==
  /\ result.rankGap = rankGapAnalysis[i].rankRange
  /\ result.candidatesPerPercent = rankGapAnalysis[i].candidatesPer1Percent

\* C15 as claimed: for every composite of [0, 100] the result carries the
\* rank-spread and candidate-density strings of a bucket whose range
\* contains the score.
C15_BucketContainsScore ==
  (/\ helper.kind = "getRankGapAnalysis"
   /\ 0 <= helper.score /\ helper.score <= 300 * 100) =>
     \E i \in 1..Len(BucketRanges) :
       Contains(i, helper.score) /\ FromBucket(helper.result, i)

\* C15, amended: for a composite of [30, 100] the result carries the strings
\* of the first bucket, in table order, whose range contains the score; for
\* a composite of [0, 30), which no bucket contains, those of the last
\* bucket, "30-40%".
C15_FirstBucketOrLast ==
  (/\ helper.kind = "getRankGapAnalysis"
   /\ 0 <= helper.score /\ helper.score <= 300 * 100) =>
     LET holding == {i \in 1..Len(BucketRanges) : Contains(i, helper.score)}
     IN /\ holding = {} <=> helper.score < 300 * 30
        /\ holding = {} => FromBucket(helper.result, Len(BucketRanges))
        /\ \A i \in holding :
             (\A j \in holding : i <= j) => FromBucket(helper.result, i)

\* A composite of 10.00 gets the strings of the "30-40%" bucket.
C15_Witness ==
  /\ helper.kind = "getRankGapAnalysis"
  /\ helper.score = 300 * 10
  /\ helper.result.rankGap = "2,35,000-2,59,000"
  /\ helper.result.candidatesPerPercent = "10,000"

\* C16: with the embedded table, for every valid composite strictly between
\* 35.00 and 96.22 some adjacent pair matches, the scan of the table ends
\* with a prediction, and that prediction, never the closest-point one, is
\* what the call returns.
C16_FallbackUnreachable ==
  (Called /\ Interior) =>
    /\ \E i \in 1..(Len(kcet2025RankTable) - 1) : Brackets(i)
    /\ interpolate(Composite300, 1) # null
    /\ outcome = interpolate(Composite300, 1)

\* predictKCETRank(153, 85): the composite is the calibration score 85.00,
\* the common end of two adjacent pairs.
C16_Witness ==
  /\ cet = Num(153) /\ puc = Num(85)
  /\ Composite300 = 3 * 8500
  /\ Returned /\ outcome.medium = 3804

\* The adjacent pairs (i, i + 1) that match the composite of the call.
MatchingPairs == {i \in 1..(Len(kcet2025RankTable) - 1) : Brackets(i)}

\* C17 as claimed: for every valid composite at most one adjacent pair of
\* the calibration table satisfies next.score <= composite <= current.score.
C17_AtMostOnePair ==
  (Called /\ ValidComposite) => Cardinality(MatchingPairs) <= 1

\* C17, amended: for every valid composite at most two adjacent pairs match;
\* two match exactly when the composite is the score of an interior
\* calibration point, they are the two pairs that point belongs to, both
\* interpolate to the point's rank, and that rank is returned.
C17_AtMostTwoPairs ==
  (Called /\ ValidComposite) =>
    /\ Cardinality(MatchingPairs) <= 2
    /\ Cardinality(MatchingPairs) = 2 <=>
         \E k \in 2..(Len(kcet2025RankTable) - 1) :
           Composite300 = 3 * kcet2025RankTable[k].score
    /\ \A k \in 2..(Len(kcet2025RankTable) - 1) :
         Composite300 = 3 * kcet2025RankTable[k].score =>
           /\ MatchingPairs = {k - 1, k}
           /\ \A i \in MatchingPairs :
                interpolatedMedium(kcet2025RankTable[i],
                                   kcet2025RankTable[i + 1], Composite300)
                  = kcet2025RankTable[k].rank
           /\ Returned
           /\ outcome.medium = kcet2025RankTable[k].rank

\* predictKCETRank(144, 80): the composite 80.00 matches the pairs
\* (85.00, 80.00) and (80.00, 75.00).
C17_Witness ==
  /\ cet = Num(144) /\ puc = Num(80)
  /\ MatchingPairs = {4, 5}
  /\ Returned /\ outcome.medium = 8500

\* The latest call has the arguments of the remembered earlier call.
SameArguments == Called /\ prev # none /\ prev.cet = cet /\ prev.puc = puc

\* C18: in any sequence of calls, failing ones included, a call with the
\* arguments of an earlier call has the outcome of that call, and after
\* every call the calibration and rank-gap tables are as initialised.
C18_NoHiddenState ==
  /\ tables = InitialTables
  /\ SameArguments => outcome = prev.outcome

\* An interpolated prediction returned a second time, after any calls
\* between.
C18_Witness ==
  SameArguments /\ Interior /\ Returned /\ outcome = prev.outcome

\* The reviews stored under the localStorage key 'local_reviews'.
LocalReviews ==
  IF localStorage.local_reviews = null THEN <<>>
  ELSE localStorage.local_reviews.value

\* The latest operation was a load that Supabase failed: a query answered
\* with an error, or a request that threw.
LoadFailed ==
  /\ reviewCall.kind = "loadCollegeReviews"
  /\ \/ reviewCall.answers.reviews \in {"error", "throw"}
     \/ reviewCall.answers.colleges = "throw"

\* C19: a load that Supabase fails returns the reviews stored under
\* 'local_reviews'; so a review that a save put there as its fallback is
\* among the reviews a later failing load returns.
C19_LoadFallsBackToLocalStorage ==
  LoadFailed =>
    /\ reviewCall.value = LocalReviews
    /\ \A i \in 1..Len(LocalReviews) :
         \E j \in 1..Len(reviewCall.value) :
           reviewCall.value[j].id = LocalReviews[i].id

\* C20: when deleteReview(reviewId) has resolved to true, neither the
\* college_reviews table nor the 'local_reviews' list holds a review with
\* that id, whatever the Supabase delete reported.
C20_DeletedFromBothStores ==
  (reviewCall.kind = "deleteReview" /\ reviewCall.value) =>
    /\ \A i \in 1..Len(supabase.college_reviews) :
         supabase.college_reviews[i].id # reviewCall.reviewId
    /\ \A i \in 1..Len(LocalReviews) :
         LocalReviews[i].id # reviewCall.reviewId

\* The latest operation was a save.
Saved == reviewCall.kind = "saveReviewToSupabase"

\* The save ended on a failure path: the review was not inserted into
\* college_reviews, because a request failed or threw on the way.
FailurePath == Saved /\ reviewCall.answers.insert # "ok"

\* stored is what JSON keeps of review: the same properties with the same
\* values, but for those whose value is undefined.
IsJSONOf(stored, review) ==
  /\ DOMAIN stored \subseteq DOMAIN review
  /\ \A f \in DOMAIN stored : stored[f] = review[f]
  /\ \A f \in DOMAIN review \ DOMAIN stored : review[f] = undefined

\* C21: every save resolves to a review, never to null, whatever Supabase
\* answers, and handleSubmitReview adds it to the page; a save on a failure
\* path appends exactly one review to 'local_reviews', the one it returns,
\* and a save on the Supabase path leaves 'local_reviews' alone.
C21_SaveNeverNull ==
  [][(clock' = clock + 1) =>
       /\ Saved'
       /\ reviewCall'.value # null
       /\ reviewCall'.shown = "onAddReview"
       /\ FailurePath' =>
            /\ Len(LocalReviews') = Len(LocalReviews) + 1
            /\ SubSeq(LocalReviews', 1, Len(LocalReviews)) = LocalReviews
            /\ IsJSONOf(LocalReviews'[Len(LocalReviews')], reviewCall'.value)
            /\ UNCHANGED supabase.college_reviews
       /\ ~FailurePath' =>
            /\ LocalReviews' = LocalReviews
            /\ Len(supabase'.college_reviews) = Len(supabase.college_reviews) + 1
            /\ supabase'.college_reviews[Len(supabase'.college_reviews)].id
                 = reviewCall'.value.id]_vars

\* A second save that meets a duplicate college and a failing refetch: its
\* review is the second one of 'local_reviews'.
C21_Witness ==
  /\ FailurePath
  /\ reviewCall.answers.create = "duplicate"
  /\ reviewCall.answers.refetch = "error"
  /\ reviewCall.value.id = "local_2"
  /\ Len(LocalReviews) = 2
  /\ LocalReviews[2].id = "local_2"

Checked == reviewCall.kind = "isUserReview"

\* The reviews the saves resolved to while the stored session id was the
\* one stored now.
ReturnedToThisSession ==
  {r.review : r \in {x \in returned :
                       x.session = localStorage.user_session_id}}

\* C22: isUserReview is true for every review a save resolved to, from
\* Supabase or from the localStorage fallback, while the stored
\* 'user_session_id' is the one of that save; and it is false for a review
\* whose user_id and session_id both differ from the current session id.
C22_ReturnedReviewIsOwn ==
  Checked =>
    /\ reviewCall.sessionId = localStorage.user_session_id
    /\ reviewCall.review \in ReturnedToThisSession => reviewCall.value = TRUE
    /\ ( /\ Field(reviewCall.review, "user_id") # reviewCall.sessionId
         /\ Field(reviewCall.review, "session_id") # reviewCall.sessionId )
         => reviewCall.value = FALSE

C22_Witness ==
  /\ Checked /\ reviewCall.value = TRUE
  /\ reviewCall.review \in ReturnedToThisSession
  /\ reviewCall.review.user_id = null
  /\ \E r \in ReturnedToThisSession : r.user_id = undefined
  /\ clock = MaxSaves

\* C23: once a session id is stored under 'user_session_id', no load, save,
\* delete or isUserReview call overwrites or removes it, and every call of
\* getUserSessionId these make returns it: the id isUserReview compares
\* with, the session_id of the review a save resolves to and the id of the
\* reviews a load shows as written by 'You' are the stored one.
C23_SessionIdStable ==
  [][localStorage.user_session_id # null =>
       /\ localStorage'.user_session_id = localStorage.user_session_id
       /\ Checked' => reviewCall'.sessionId = localStorage.user_session_id
       /\ Saved' =>
            reviewCall'.value.session_id = localStorage.user_session_id
       /\ reviewCall'.kind = "loadCollegeReviews" =>
            \A i \in 1..Len(reviewCall'.value) :
              reviewCall'.value[i].author = "You" =>
                localStorage.user_session_id
                  \in {Field(reviewCall'.value[i], "user_id"),
                       Field(reviewCall'.value[i], "session_id")}]_vars

C23_Witness ==
  /\ Checked /\ clock = MaxSaves
  /\ localStorage.user_session_id = Str("uuid_b")
  /\ reviewCall.sessionId = Str("uuid_b")
  /\ localStorage.local_reviews # null /\ LocalReviews = <<>>
  /\ \A r \in returned : r.session = Str("uuid_b")
  /\ Cardinality(returned) = 2
====
